---- MODULE Spec2Model ----
(***************************************************************************)
(* Model of the room-scoped WebSocketService of                            *)
(* frontend/src/services/authService.js (class WebSocketService, lines     *)
(* 389-701) together with the browser WebSocket objects it drives.         *)
(*                                                                         *)
(* The service is single threaded: every action below is one complete      *)
(* run of a method or of an event handler.  The only suspension point      *)
(* inside the service is the backoff delay of attemptReconnect, which      *)
(* splits that method in the part run inside onclose and the part run      *)
(* when the timer fires (TimerFire).                                       *)
(*                                                                         *)
(* Browser WebSocket behaviour (WHATWG) used by the environment actions:   *)
(*   - close() on a CONNECTING socket fails the connection: an error       *)
(*     event and then a close event with code 1006 are delivered;          *)
(*   - close(1000) on an OPEN socket ends in a close event with code 1000  *)
(*     (the closing handshake is taken to complete);                       *)
(*   - a connection that fails or drops delivers error, then close(1006);  *)
(*   - the server may close an open connection itself (close event only);  *)
(*   - send() throws on a CONNECTING socket;                               *)
(*   - the error event is a plain Event (no message property) in a         *)
(*     browser; other transports hand over an object with a message.       *)
(*                                                                         *)
(* The callbacks onOpen, onClose and onError are the application's: what   *)
(* the application does in reaction is covered by its calls being enabled  *)
(* at any time.  new WebSocket(url) is taken not to throw.                 *)
(*                                                                         *)
(* ret, wire and calls report what the last call or handler returned,      *)
(* passed to onError, sent and invoked; obs, the cancelled mark of a timer *)
(* and the called mark of a disposer are history kept for the properties.  *)
(* None of them is read by the service.                                    *)
(*                                                                         *)
(* The second part models the App component of frontend/src/App.jsx        *)
(* (lines 13-195) with the service it imports, the WebSocketService of     *)
(* frontend/src/services/websocketService.js.  app holds the useState      *)
(* values of the component and localStorage.currentRoom.                   *)
(*                                                                         *)
(* Specifications: Spec (connection, sending and registration), SpecConn   *)
(* (the connection life cycle), SpecDispatch (inbound frames and their     *)
(* handlers), SpecRegistry (handlers and disposers), SpecFlush (the pending *)
(* queue and flushPendingMessages), SpecReentrant (handlers that change    *)
(* the registry while a frame is dispatched), SpecCred (the connection     *)
(* life cycle under a credential that is renewed), SpecUrl (the address    *)
(* given to new WebSocket), SpecRoom (the room view of the application),   *)
(* SpecRoster (the roster under the presence events of both versions of    *)
(* the component) and SpecSession (the application over the life of its    *)
(* connections).                                                           *)
(***************************************************************************)
EXTENDS Integers, Sequences, FiniteSets, TLC

\* ---- bounds of the model ------------------------------------------------
MaxLive == 2        \* WebSocket objects that may exist at the same time
MaxTimers == 1      \* backoff timers that may be pending at the same time
MaxQueue == 1       \* frames that may wait in pendingMessages
MaxMessages == 2    \* entries the chat list of the application may hold
MaxCalls == 6       \* handler invocations followed within one forEach
MaxText == 2        \* characters of a room id or credential put in a URL

\* ---- program constants --------------------------------------------------
maxReconnectAttempts == 5
BaseReconnectDelay == 1000
maxReconnectDelay == 30000
NormalClosure == 1000

Null == "null"
NoSocket == 0
ChanIds == 1..MaxLive
Rooms == {"demo-room"}
Tokens == {"abc123"}
Msgs == {"m1", "m2"}
Handlers == {"h1"}
EventTypes == {"chat_message"}
\* the handler functions of the runs that look at the order of dispatch
DispatchHandlers == {"h1", "h2"}
\* the group of the handlers registered by addMessageHandler
General == "*"
\* event.data of a message event: text that is no JSON, and frames with a
\* registered event_type, with another event_type and without event_type
BadPayloads == {"<html>"}
GoodPayloads == {"chat_message", "system_message", "{}"}
Payloads == BadPayloads \cup GoodPayloads

\* what the argument of onerror looks like
ErrorKinds == {"event", "transport", "auth401"}
\* close codes a server may put in its own Close frame
ServerCloseCodes == {NormalClosure, 1011}
\* the close code of a connection that failed or was lost
FailedCloseCodes == {1006}
AllCloseCodes == ServerCloseCodes \cup FailedCloseCodes

VARIABLES
    socket,             \* this.socket: a channel id or NoSocket
    messageHandlers,    \* this.messageHandlers: Set, in insertion order
    eventHandlers,      \* this.eventHandlers: Map eventType -> Set
    isConnected,        \* this.isConnected
    reconnectAttempts,  \* this.reconnectAttempts
    reconnectDelay,     \* this.reconnectDelay
    currentRoom,        \* this.currentRoom
    token,              \* this.token
    pendingMessages,    \* this.pendingMessages
    chans,              \* the WebSocket objects created by connect()
    timers,             \* pending setTimeout continuations of attemptReconnect
    wire,               \* frames the last call or handler gave to socket.send()
    authToken,          \* what getAuthToken() returns now
    ret,                \* outcome of the last method call or event handler
    obs,                \* bookkeeping of the reconnection scenario
    calls,              \* handler invocations made by the last handler
    disposers,          \* the closures returned by addMessageHandler and on
    websocketService,   \* the object exported by services/websocketService.js
    app                 \* the state of the App component and localStorage

vars == <<socket, messageHandlers, eventHandlers, isConnected,
          reconnectAttempts, reconnectDelay, currentRoom, token,
          pendingMessages, chans, timers, wire, authToken, ret, obs,
          calls, disposers, websocketService, app>>

\* ---- helpers ------------------------------------------------------------
Min(a, b) == IF a < b THEN a ELSE b

RECURSIVE Pow2(_)
Pow2(n) == IF n <= 0 THEN 1 ELSE 2 * Pow2(n - 1)

FreeChan == [st |-> "free", promise |-> "none", byUs |-> FALSE,
             room |-> Null, tok |-> Null]

Live(c) == c.st \in {"connecting", "open"}

\* what a call or handler reports: its return value, the error it passed to
\* onError, what attemptReconnect did and the delay it computed
Ret(op, val, err) ==
    [op |-> op, val |-> val, err |-> err, ar |-> "none", delay |-> 0]

NoRet == Ret("init", "void", "none")

\* the whole state as one record, so that methods can call each other
State == [socket |-> socket, messageHandlers |-> messageHandlers,
          eventHandlers |-> eventHandlers, isConnected |-> isConnected,
          reconnectAttempts |-> reconnectAttempts,
          reconnectDelay |-> reconnectDelay, currentRoom |-> currentRoom,
          token |-> token, pendingMessages |-> pendingMessages,
          chans |-> chans, timers |-> timers, wire |-> wire,
          authToken |-> authToken, ret |-> ret, obs |-> obs,
          calls |-> calls, disposers |-> disposers,
          websocketService |-> websocketService, app |-> app]

\* the state a call or handler starts from: nothing is sent or invoked yet
Start == [State EXCEPT !.wire = <<>>, !.calls = <<>>]

Becomes(s) ==
    /\ socket' = s.socket
    /\ messageHandlers' = s.messageHandlers
    /\ eventHandlers' = s.eventHandlers
    /\ isConnected' = s.isConnected
    /\ reconnectAttempts' = s.reconnectAttempts
    /\ reconnectDelay' = s.reconnectDelay
    /\ currentRoom' = s.currentRoom
    /\ token' = s.token
    /\ pendingMessages' = s.pendingMessages
    /\ chans' = s.chans
    /\ timers' = s.timers
    /\ wire' = s.wire
    /\ authToken' = s.authToken
    /\ ret' = s.ret
    /\ obs' = s.obs
    /\ calls' = s.calls
    /\ disposers' = s.disposers
    /\ websocketService' = s.websocketService
    /\ app' = s.app

NoEntry == [has |-> FALSE, hs |-> <<>>]

NoObs == [scenario |-> "fresh", policyConnects |-> 0, exhausted |-> 0,
          reopened |-> FALSE]

\* ---- App.jsx and services/websocketService.js: values ---------------------
wsMaxReconnectAttempts == 5
Undefined == "undefined"
DefaultCode == "// Commencez a coder..."
ConnectionError == "Erreur de connexion au serveur"
\* user.username of the authenticated user, and the users of a room
Username == "alice"
Usernames == {"alice", "bob"}

\* a decoded frame; a property that is absent reads as undefined
Frame(type) ==
    [type |-> type, room |-> Undefined, username |-> Undefined,
     user |-> Undefined, content |-> Undefined, code |-> Undefined,
     message |-> Undefined, users |-> <<>>]

\* the frames the application sends (App.jsx lines 103, 148, 164, 175)
JoinRoomFrame(roomName, username) ==
    [Frame("join_room") EXCEPT !.room = roomName, !.username = username]

LeaveRoomFrame(roomName, username) ==
    [Frame("leave_room") EXCEPT !.room = roomName, !.username = username]

CodeUpdateFrame(roomName, newCode) ==
    [Frame("code_update") EXCEPT !.room = roomName, !.code = newCode]

ChatMessageFrame(roomName, user, text) ==
    [Frame("chat_message") EXCEPT !.room = roomName, !.user = user,
                                  !.message = text]

\* the useState values of App (lines 17-23) and localStorage.currentRoom
NoApp == [mounted |-> FALSE, room |-> "", code |-> DefaultCode,
          messages |-> <<>>, users |-> <<>>, loading |-> FALSE,
          error |-> "", savedRoom |-> Null]

\* websocketService.js constructor; chans are the WebSocket objects it
\* created and timers the pending setTimeout calls of its onclose
NoWebsocketService ==
    [socket |-> NoSocket, messageHandlers |-> <<>>, isConnected |-> FALSE,
     reconnectAttempts |-> 0, chans |-> [c \in ChanIds |-> "free"],
     timers |-> 0]

Init ==
    /\ socket = NoSocket
    /\ messageHandlers = <<>>
    /\ eventHandlers = [e \in EventTypes |-> NoEntry]
    /\ isConnected = FALSE
    /\ reconnectAttempts = 0
    /\ reconnectDelay = BaseReconnectDelay
    /\ currentRoom = Null
    /\ token = Null
    /\ pendingMessages = <<>>
    /\ chans = [c \in ChanIds |-> FreeChan]
    /\ timers = <<>>
    /\ wire = <<>>
    /\ authToken \in Tokens \cup {Null}
    /\ ret = NoRet
    /\ obs = NoObs
    /\ calls = <<>>
    /\ disposers = {}
    /\ websocketService = NoWebsocketService
    /\ app = NoApp

\* ---- the service's methods, as functions of the state -------------------

\* getAuthToken(): the stored token when present and not expired, else null
getAuthToken(s) == s.authToken

\* WebSocket.close(): a socket that is still connecting fails (error and
\* close 1006 follow), an open one starts the closing handshake
CloseCall(c) ==
    IF c.st = "connecting" THEN [c EXCEPT !.st = "closingC", !.byUs = TRUE]
    ELSE IF c.st = "open" THEN [c EXCEPT !.st = "closingO", !.byUs = TRUE]
    ELSE c

\* A disposer is the closure returned by a registration: e is General for
\* addMessageHandler and the event type for on, h the handler it deletes,
\* called whether it has been called.  The closure of on() deletes from the
\* Set it was created for; once disconnect() or off() has dropped that Set
\* from the map it can change nothing the service reads, and it is no longer
\* kept.  The closure of addMessageHandler deletes from this.messageHandlers,
\* which is one Set for the life of the service.
Disposer(e, h) == [e |-> e, h |-> h, called |-> FALSE]

Disposers == [e : EventTypes \cup {General}, h : DispatchHandlers,
              called : BOOLEAN]

AttachedAfterClear(ds) == {d \in ds : d.e = General}

\* disconnect() that forgets to empty the pending queue
disconnect_keepsQueue(s) ==
    LET s1 == IF s.socket # NoSocket
              THEN [s EXCEPT !.chans[s.socket] = CloseCall(s.chans[s.socket]),
                             !.socket = NoSocket]
              ELSE s
    IN [s1 EXCEPT !.isConnected = FALSE,
                  !.currentRoom = Null,
                  !.messageHandlers = <<>>,
                  !.eventHandlers = [e \in EventTypes |-> NoEntry],
                  !.disposers = AttachedAfterClear(@)]

\* disconnect()
disconnect(s) ==
    LET s1 == IF s.socket # NoSocket
              THEN [s EXCEPT !.chans[s.socket] = CloseCall(s.chans[s.socket]),
                             !.socket = NoSocket]
              ELSE s
    IN [s1 EXCEPT !.isConnected = FALSE,
                  !.currentRoom = Null,
                  !.messageHandlers = <<>>,
                  !.eventHandlers = [e \in EventTypes |-> NoEntry],
                  !.disposers = AttachedAfterClear(@),
                  !.pendingMessages = <<>>]

FreeIds(s) == {c \in ChanIds : s.chans[c].st = "free"}

NewChanId(s) == CHOOSE c \in FreeIds(s) : \A d \in FreeIds(s) : c <= d

\* ---- the address of the channel (lines 431-432) ---------------------------
\* A text is a sequence of pieces: single characters, or a run of characters
\* that encodeURIComponent leaves alone.
UrlChars == {"a", " ", "/", "?", "&", "%"}
DemoRoom == <<"demo-room">>
DemoToken == <<"abc123">>
Texts == UNION {[1..n -> UrlChars] : n \in 1..MaxText} \cup {DemoRoom, DemoToken}

\* the UTF-8 percent escape of a character that is not unreserved
Escape(ch) ==
    CASE ch = " " -> <<"%", "2", "0">>
      [] ch = "/" -> <<"%", "2", "F">>
      [] ch = "?" -> <<"%", "3", "F">>
      [] ch = "&" -> <<"%", "2", "6">>
      [] ch = "=" -> <<"%", "3", "D">>
      [] ch = "%" -> <<"%", "2", "5">>
      [] OTHER -> <<ch>>

RECURSIVE encodeURIComponent(_)
encodeURIComponent(str) ==
    IF str = <<>> THEN <<>>
    ELSE Escape(Head(str)) \o encodeURIComponent(Tail(str))

\* this.connectionUrl (line 393, without VITE_WS_URL)
connectionUrl == "ws://localhost:8000"

\* wsUrl of lines 431-432, as the sequence of its pieces
wsUrl(roomId, tok) ==
    <<connectionUrl, "/ws/chat/group/">> \o encodeURIComponent(roomId)
        \o <<"?token=">> \o encodeURIComponent(tok)

\* the address of websocketService.js line 18: connect(token, ...) has no
\* room id, and the token goes in as it is
wsSocketUrl(tok) ==
    <<connectionUrl, "/ws/chat/group/", "1", "?token=">> \o tok

\* connect() that keeps the credential of an earlier call while it has one
connect_reusesToken(s, roomId, who) ==
    LET s1 == IF s.socket # NoSocket THEN disconnect(s) ELSE s
        tok == IF s1.token # Null /\ getAuthToken(s1) # Null
               THEN s1.token ELSE getAuthToken(s1)
        s2 == [s1 EXCEPT !.token = tok]
    IN IF tok = Null
       THEN [s2 EXCEPT !.ret = Ret(who, "throw", "Non authentifie")]
       ELSE LET c == NewChanId(s2)
            IN [s2 EXCEPT !.currentRoom = roomId,
                          !.chans[c] = [st |-> "connecting",
                                        promise |-> "pending",
                                        byUs |-> FALSE,
                                        room |-> roomId, tok |-> tok],
                          !.socket = c,
                          !.ret = Ret(who, "promise", "none")]

\* connect() that falls back on the credential cached by an earlier call
connect_cachedToken(s, roomId, who) ==
    LET s1 == IF s.socket # NoSocket THEN disconnect(s) ELSE s
        tok == IF getAuthToken(s1) = Null THEN s1.token ELSE getAuthToken(s1)
        s2 == [s1 EXCEPT !.token = tok]
    IN IF tok = Null
       THEN [s2 EXCEPT !.ret = Ret(who, "throw", "Non authentifie")]
       ELSE LET c == IF FreeIds(s2) = {} THEN 1 ELSE NewChanId(s2)
            IN [s2 EXCEPT !.currentRoom = roomId,
                          !.chans[c] = [st |-> "connecting",
                                        promise |-> "pending",
                                        byUs |-> FALSE,
                                        room |-> roomId, tok |-> tok],
                          !.socket = c,
                          !.ret = Ret(who, "promise", "none")]

\* connect(roomId, callbacks); who is "connect" or "timer"
connect(s, roomId, who) ==
    LET s1 == IF s.socket # NoSocket THEN disconnect(s) ELSE s
        tok == getAuthToken(s1)
        s2 == [s1 EXCEPT !.token = tok]
    IN IF tok = Null
       THEN [s2 EXCEPT !.ret = Ret(who, "throw", "Non authentifie")]
       ELSE LET c == NewChanId(s2)
            IN [s2 EXCEPT !.currentRoom = roomId,
                          !.chans[c] = [st |-> "connecting",
                                        promise |-> "pending",
                                        byUs |-> FALSE,
                                        room |-> roomId, tok |-> tok],
                          !.socket = c,
                          !.ret = Ret(who, "promise", "none")]

\* connect() needs a WebSocket object of the model when it gets to create one
CanConnect(s) ==
    \/ s.authToken = Null
    \/ FreeIds(s) # {}

\* the delay computed with the exponent of the attempt that follows
Delay_nextExponent(s) ==
    Min(s.reconnectDelay * Pow2(s.reconnectAttempts), maxReconnectDelay)

\* the delay computed at line 533
Delay(s) ==
    Min(s.reconnectDelay * Pow2(s.reconnectAttempts - 1), maxReconnectDelay)

\* attemptReconnect() that compares the counter with > instead of >=
attemptReconnect_offByOne(s, roomId) ==
    LET tok == getAuthToken(s)
        s1 == [s EXCEPT !.token = tok]
    IN IF tok = Null
       THEN [s1 EXCEPT !.ret.err = "Non authentifie - reconnexion",
                       !.ret.ar = "noToken"]
       ELSE IF s1.reconnectAttempts > maxReconnectAttempts
       THEN [s1 EXCEPT !.ret.err = "Maximum de tentatives",
                       !.ret.ar = "exhausted"]
       ELSE LET s2 == [s1 EXCEPT !.reconnectAttempts = @ + 1]
            IN [s2 EXCEPT !.timers = Append(@, [room |-> roomId,
                                                cancelled |-> FALSE]),
                          !.ret.ar = "scheduled",
                          !.ret.delay = Delay(s2)]

\* attemptReconnect(roomId, callbacks) up to its await of the backoff delay;
\* the delay it computed is reported in ret
attemptReconnect(s, roomId) ==
    LET tok == getAuthToken(s)
        s1 == [s EXCEPT !.token = tok]
    IN IF tok = Null
       THEN [s1 EXCEPT !.ret.err = "Non authentifie - reconnexion",
                       !.ret.ar = "noToken"]
       ELSE IF s1.reconnectAttempts >= maxReconnectAttempts
       THEN [s1 EXCEPT !.ret.err = "Maximum de tentatives",
                       !.ret.ar = "exhausted"]
       ELSE LET s2 == [s1 EXCEPT !.reconnectAttempts = @ + 1]
            IN [s2 EXCEPT !.timers = Append(@, [room |-> roomId,
                                                cancelled |-> FALSE]),
                          !.ret.ar = "scheduled",
                          !.ret.delay = Delay(s2)]

\* attemptReconnect once the backoff delay has elapsed (lines 540-549)
reconnectAfterDelay(s, roomId) ==
    IF ~s.isConnected
    THEN connect(s, roomId, "timer")
    ELSE [s EXCEPT !.ret = Ret("timer", "skip", "none")]

\* return values of sendMessage (lines 582, 593, 596)
SendQueuedReturn == "false"
SendSentReturn == "true"
SendFailedReturn == "false"

\* sendMessage(message)
sendMessage(s, m) ==
    IF ~s.isConnected \/ s.socket = NoSocket
    THEN [s EXCEPT !.pendingMessages = Append(@, m),
                   !.ret = Ret("sendMessage", SendQueuedReturn, "none")]
    ELSE IF s.chans[s.socket].st = "connecting"
    THEN \* socket.send() throws InvalidStateError, caught at line 594
         [s EXCEPT !.ret = Ret("sendMessage", SendFailedReturn, "none")]
    ELSE \* a socket that is closing or closed discards the frame silently
         [s EXCEPT !.wire = IF s.chans[s.socket].st = "open"
                            THEN Append(@, m) ELSE @,
                   !.ret = Ret("sendMessage", SendSentReturn, "none")]

\* the loop of flushPendingMessages (lines 651-654), for at most n turns.
\* Nothing in the loop changes what sendMessage tests, so a queue that is
\* not empty after as many turns as it held frames is one that sendMessage
\* refills on every turn: the loop never ends and the call never returns.
RECURSIVE flushLoop(_, _)
flushLoop(s, n) ==
    IF s.pendingMessages = <<>>
    THEN [s EXCEPT !.ret = Ret("flushPendingMessages", "void", "none")]
    ELSE IF n = 0
    THEN [s EXCEPT !.ret = Ret("flushPendingMessages", "diverges", "none")]
    ELSE LET message == Head(s.pendingMessages)
         IN flushLoop(sendMessage([s EXCEPT !.pendingMessages = Tail(@)],
                                  message),
                      n - 1)

\* flushPendingMessages(); no line of the service calls it
flushPendingMessages(s) == flushLoop(s, Len(s.pendingMessages))

\* Set.add keeps the insertion order and ignores a value already present
SetAdd(seq, h) ==
    IF \E i \in 1..Len(seq) : seq[i] = h THEN seq ELSE Append(seq, h)

\* Set.delete
SetDelete(seq, h) == SelectSeq(seq, LAMBDA x : x # h)

\* addMessageHandler(handler)
addMessageHandler(s, h) ==
    [s EXCEPT !.messageHandlers = SetAdd(@, h),
              !.disposers = @ \cup {Disposer(General, h)},
              !.ret = Ret("addMessageHandler", "disposer", "none")]

\* on(eventType, handler)
on(s, e, h) ==
    [s EXCEPT !.eventHandlers[e] = [has |-> TRUE, hs |-> SetAdd(@.hs, h)],
              !.disposers = @ \cup {Disposer(e, h)},
              !.ret = Ret("on", "disposer", "none")]

\* off(eventType)
off(s, e) ==
    [s EXCEPT !.eventHandlers[e] = NoEntry,
              !.disposers = {d \in @ : d.e # e},
              !.ret = Ret("off", "void", "none")]

\* the closure returned by addMessageHandler (line 669) or on (line 691)
dispose(s, d) ==
    LET s1 == IF d.e = General
              THEN [s EXCEPT !.messageHandlers = SetDelete(@, d.h)]
              ELSE [s EXCEPT !.eventHandlers[d.e].hs = SetDelete(@, d.h)]
    IN [s1 EXCEPT !.disposers = (@ \ {d}) \cup {[d EXCEPT !.called = TRUE]},
                  !.ret = Ret("dispose", "void", "none")]

\* JSON.parse(event.data): the decoded frame, or SyntaxError
SyntaxError == [ok |-> FALSE, event_type |-> Null]

\* JSON.parse that takes any text for a frame without event_type
JSONparse_lenient(p) ==
    IF p \in EventTypes \cup {"system_message"}
    THEN [ok |-> TRUE, event_type |-> p]
    ELSE [ok |-> TRUE, event_type |-> Null]

JSONparse(p) ==
    IF p \in BadPayloads THEN SyntaxError
    ELSE IF p = "{}" THEN [ok |-> TRUE, event_type |-> Null]
    ELSE [ok |-> TRUE, event_type |-> p]

\* Set.forEach(handler => handler(data)) where the handlers of throwers
\* throw: the handlers invoked, up to and including the first that throws
Throws(hs, throwers) == \E i \in 1..Len(hs) : hs[i] \in throwers

FirstThrow(hs, throwers) ==
    CHOOSE i \in 1..Len(hs) :
        /\ hs[i] \in throwers
        /\ \A j \in 1..(i - 1) : hs[j] \notin throwers

Invoked(hs, throwers) ==
    IF Throws(hs, throwers) THEN SubSeq(hs, 1, FirstThrow(hs, throwers))
    ELSE hs

\* an invocation is recorded as <<group, handler>>
Tag(g, hs) == [i \in 1..Len(hs) |-> <<g, hs[i]>>]

\* the Set that line 458 iterates for the frame, empty when line 457 is false
Keyed(s, data) ==
    IF /\ data.event_type # Null
       /\ data.event_type \in EventTypes
       /\ s.eventHandlers[data.event_type].has
    THEN s.eventHandlers[data.event_type].hs
    ELSE <<>>

\* socket.onmessage that serves the keyed handlers first
onmessage_keyedFirst(s, c, p, throwers) ==
    LET data == JSONparse(p)
        ks == Keyed(s, data)
    IN IF ~data.ok
       THEN [s EXCEPT !.ret = Ret("onmessage", "SyntaxError", "none")]
       ELSE IF Throws(ks, throwers)
       THEN [s EXCEPT !.calls = Tag(data.event_type, Invoked(ks, throwers)),
                      !.ret = Ret("onmessage", "handler error", "none")]
       ELSE [s EXCEPT !.calls = Tag(data.event_type, ks)
                                \o Tag(General, Invoked(s.messageHandlers,
                                                        throwers)),
                      !.ret = Ret("onmessage",
                                  IF Throws(s.messageHandlers, throwers)
                                  THEN "handler error" ELSE "void",
                                  "none")]

\* socket.onmessage (lines 450-464); p is event.data, throwers the handler
\* functions that throw when they are given this frame
onmessage(s, c, p, throwers) ==
    LET data == JSONparse(p)
        ks == Keyed(s, data)
    IN IF ~data.ok
       THEN [s EXCEPT !.ret = Ret("onmessage", "SyntaxError", "none")]
       ELSE IF Throws(s.messageHandlers, throwers)
       THEN [s EXCEPT !.calls = Tag(General, Invoked(s.messageHandlers,
                                                     throwers)),
                      !.ret = Ret("onmessage", "handler error", "none")]
       ELSE [s EXCEPT !.calls = Tag(General, s.messageHandlers)
                                \o Tag(data.event_type, Invoked(ks, throwers)),
                      !.ret = Ret("onmessage",
                                  IF Throws(ks, throwers)
                                  THEN "handler error" ELSE "void",
                                  "none")]

\* What a handler function does with the registry when it is invoked: it
\* returns at once, calls the disposer of handler h of group e, or registers
\* h in group e (addMessageHandler for General, on for an event type).
HandlerActs ==
    {[do |-> "return", e |-> General, h |-> "h1"]}
    \cup [do : {"dispose", "register"}, e : EventTypes \cup {General},
          h : DispatchHandlers]

act(s, a) ==
    IF a.do = "register"
    THEN IF a.e = General THEN addMessageHandler(s, a.h) ELSE on(s, a.e, a.h)
    ELSE IF a.do = "dispose" /\ \E d \in s.disposers : d.e = a.e /\ d.h = a.h
    THEN dispose(s, CHOOSE d \in s.disposers : d.e = a.e /\ d.h = a.h)
    ELSE s

\* the runs followed: at most one handler function changes the registry
Behaviours ==
    {does \in [DispatchHandlers -> HandlerActs] :
        Cardinality({h \in DispatchHandlers : does[h].do # "return"}) <= 1}

\* the Set of group g as forEach finds it
Group(s, g) == IF g = General THEN s.messageHandlers ELSE s.eventHandlers[g].hs

\* Set.prototype.forEach over the live Set of group g, from its i-th entry:
\* an entry deleted before its turn is not visited, an entry added during
\* the iteration is visited at the end, for at most n invocations
RECURSIVE forEachLive(_, _, _, _, _)
forEachLive(s, g, i, does, n) ==
    LET hs == Group(s, g)
    IN IF i > Len(hs) THEN s
       ELSE IF n = 0 THEN [s EXCEPT !.ret.val = "diverges"]
       ELSE LET h == hs[i]
                s1 == act([s EXCEPT !.calls = Append(@, <<g, h>>)], does[h])
                hs1 == Group(s1, g)
                kept == {j \in 1..i : \E k \in 1..Len(hs1) : hs1[k] = hs[j]}
            IN forEachLive(s1, g, Cardinality(kept) + 1, does, n - 1)

\* socket.onmessage (lines 450-464) with handlers that return normally and
\* change the registry while the frame is dispatched, as does says
onmessageLive(s, c, p, does) ==
    LET data == JSONparse(p)
        s0 == [s EXCEPT !.ret = Ret("onmessage", "void", "none")]
    IN IF ~data.ok
       THEN [s EXCEPT !.ret = Ret("onmessage", "SyntaxError", "none")]
       ELSE LET s1 == forEachLive(s0, General, 1, does, MaxCalls)
                s2 == IF /\ data.event_type # Null
                         /\ data.event_type \in EventTypes
                         /\ s1.eventHandlers[data.event_type].has
                      THEN forEachLive(s1, data.event_type, 1, does, MaxCalls)
                      ELSE s1
            IN [s2 EXCEPT !.ret = Ret("onmessage", s2.ret.val, "none")]

\* the invocation of a callback of the caller, as recorded in calls
Callback(name) == <<"callback", name>>

\* socket.onopen that leaves the attempt counter as it is
onopen_keepsCounter(s, c) ==
    [s EXCEPT !.isConnected = TRUE,
              !.reconnectDelay = BaseReconnectDelay,
              !.chans[c].st = "open",
              !.chans[c].promise = "resolved",
              !.calls = Append(@, Callback("onOpen")),
              !.ret = Ret("onopen", "void", "none")]

\* socket.onopen (lines 438-448)
onopen(s, c) ==
    [s EXCEPT !.isConnected = TRUE,
              !.reconnectAttempts = 0,
              !.reconnectDelay = BaseReconnectDelay,
              !.chans[c].st = "open",
              !.chans[c].promise = "resolved",
              !.calls = Append(@, Callback("onOpen")),
              !.ret = Ret("onopen", "void", "none")]

\* reject() settles the promise of connect() unless it is settled already
Reject(p) == IF p = "pending" THEN "rejected" ELSE p

\* socket.onerror (lines 477-499); kind is what the handler receives
onerror(s, c, kind) ==
    LET s1 == [s EXCEPT !.isConnected = FALSE,
                        !.socket = NoSocket,
                        !.chans[c].st = "errored"]
    IN IF kind = "event"
       THEN \* error.message is undefined: line 489 throws a TypeError
            [s1 EXCEPT !.ret = Ret("onerror", "TypeError", "none")]
       ELSE IF kind = "auth401"
       THEN [s1 EXCEPT !.chans[c].promise = Reject(@),
                       !.ret = Ret("onerror", "void",
                                   "Erreur d'authentification")]
       ELSE [s1 EXCEPT !.chans[c].promise = Reject(@),
                       !.ret = Ret("onerror", "void", "transport")]

\* socket.onclose (lines 466-475)
onclose(s, c, code) ==
    LET s1 == [s EXCEPT !.isConnected = FALSE,
                        !.socket = NoSocket,
                        !.chans[c] = FreeChan,
                        !.ret = Ret("onclose", "void", "none")]
    IN IF code # NormalClosure
       THEN attemptReconnect(s1, s.chans[c].room)
       ELSE s1

\* ---- bookkeeping of the reconnection scenario ---------------------------
\* "pure": the caller connected once with a valid credential and has not
\* called connect() or disconnect() since, and the credential stayed valid.
\* While pure, obs counts the channels created by the reconnection policy
\* and the exhaustion errors surfaced since the last open event, and tells
\* whether the last open event was that of a channel the policy created.

Impure == [scenario |-> "impure", policyConnects |-> 0, exhausted |-> 0,
           reopened |-> FALSE]

Inc(n, cap) == IF n < cap THEN n + 1 ELSE n

ObsCallerConnect(s, created) ==
    IF s.obs.scenario = "fresh"
    THEN IF created THEN [s EXCEPT !.obs.scenario = "pure"] ELSE s
    ELSE [s EXCEPT !.obs = Impure]

ObsCallerDisconnect(s) ==
    IF s.obs.scenario = "fresh" THEN s ELSE [s EXCEPT !.obs = Impure]

ObsPolicyConnect(s, created) ==
    IF s.obs.scenario = "pure" /\ created
    THEN [s EXCEPT !.obs.policyConnects = Inc(@, maxReconnectAttempts + 1)]
    ELSE s

ObsExhausted(s) ==
    IF s.obs.scenario = "pure" /\ s.ret.ar = "exhausted"
    THEN [s EXCEPT !.obs.exhausted = Inc(@, 2)]
    ELSE s

ObsOpen(s) ==
    IF s.obs.scenario = "pure"
    THEN [s EXCEPT !.obs.policyConnects = 0, !.obs.exhausted = 0,
                   !.obs.reopened = (s.obs.policyConnects > 0)]
    ELSE s

\* a disconnect() by the caller is remembered in the timers then pending
MarkCancelled(s) ==
    [s EXCEPT !.timers = [i \in 1..Len(@) |-> [@[i] EXCEPT !.cancelled = TRUE]]]

RemoveAt(seq, i) == SubSeq(seq, 1, i - 1) \o SubSeq(seq, i + 1, Len(seq))

\* ---- actions: calls by the application ----------------------------------

Connect(roomId) ==
    /\ CanConnect(State)
    /\ LET s == connect(Start, roomId, "connect")
       IN Becomes(ObsCallerConnect(s, s.ret.val = "promise"))

\* disconnect() called by the application
callerDisconnect(s) ==
    [disconnect(s) EXCEPT !.ret = Ret("disconnect", "void", "none")]

Disconnect ==
    /\ TRUE
    /\ Becomes(ObsCallerDisconnect(MarkCancelled(callerDisconnect(Start))))

SendMessage(m) ==
    /\ Len(sendMessage(Start, m).pendingMessages) <= MaxQueue
    /\ Becomes(sendMessage(Start, m))

\* the application calls flushPendingMessages()
FlushPendingMessages ==
    /\ TRUE
    /\ Becomes(flushPendingMessages(Start))

AddMessageHandler(h) ==
    /\ h \in DispatchHandlers
    /\ Becomes(addMessageHandler(Start, h))

On(e, h) ==
    /\ e \in EventTypes
    /\ Becomes(on(Start, e, h))

Off(e) ==
    /\ e \in EventTypes
    /\ Becomes(off(Start, e))

\* the application calls a disposer it was given
Dispose(d) ==
    /\ d \in disposers
    /\ Becomes(dispose(Start, d))

\* ---- actions: the environment -------------------------------------------

\* the stored credential expires, is removed or is renewed
TokenChange ==
    /\ \E tk \in Tokens \cup {Null} :
         /\ tk # authToken
         /\ authToken' = tk
    /\ obs' = IF obs.scenario = "pure" THEN Impure ELSE obs
    /\ UNCHANGED <<socket, messageHandlers, eventHandlers, isConnected,
                   reconnectAttempts, reconnectDelay, currentRoom, token,
                   pendingMessages, chans, timers, wire, ret, calls,
                   disposers, websocketService, app>>

\* the credentials the token provider hands out over time
Credentials == Tokens \cup {"xyz789"}

\* the stored credential is replaced by tk (a login or a refresh), or removed
TokenBecomes(tk) ==
    /\ tk # authToken
    /\ authToken' = tk
    /\ obs' = IF obs.scenario = "pure" THEN Impure ELSE obs
    /\ UNCHANGED <<socket, messageHandlers, eventHandlers, isConnected,
                   reconnectAttempts, reconnectDelay, currentRoom, token,
                   pendingMessages, chans, timers, wire, ret, calls,
                   disposers, websocketService, app>>

\* connect() gets to line 436 with roomId and this.token as given: the
\* arguments and the address handed to new WebSocket are reported in ret.
\* The address depends on nothing but the two texts: it is computed for
\* every pair of texts in the place of a connect() that created a channel.
NewWebSocket(roomId, tok) ==
    /\ ret.op = "connect" /\ ret.val = "promise"
    /\ roomId \in Texts
    /\ tok \in Texts
    /\ ret' = Ret("new WebSocket",
                  [roomId |-> roomId, tok |-> tok, url |-> wsUrl(roomId, tok)],
                  "none")
    /\ wire' = <<>>
    /\ calls' = <<>>
    /\ UNCHANGED <<socket, messageHandlers, eventHandlers, isConnected,
                   reconnectAttempts, reconnectDelay, currentRoom, token,
                   pendingMessages, chans, timers, authToken, obs,
                   disposers, websocketService, app>>

\* App.jsx line 85: websocketService.connect(user.token, ...) creates the
\* socket of a client whose room is roomId (localStorage.currentRoom, the
\* room onOpen joins); reported as for NewWebSocket, for every pair of
\* texts from the initial state
WsNewWebSocket(roomId, tok) ==
    /\ ret.op = "init"
    /\ roomId \in Texts
    /\ tok \in Texts
    /\ ret' = Ret("ws new WebSocket",
                  [roomId |-> roomId, tok |-> tok, url |-> wsSocketUrl(tok)],
                  "none")
    /\ wire' = <<>>
    /\ calls' = <<>>
    /\ UNCHANGED <<socket, messageHandlers, eventHandlers, isConnected,
                   reconnectAttempts, reconnectDelay, currentRoom, token,
                   pendingMessages, chans, timers, authToken, obs,
                   disposers, websocketService, app>>

\* the open event of a connecting channel
OpenEvent(c) ==
    /\ chans[c].st = "connecting"
    /\ Becomes(ObsOpen(onopen(Start, c)))

\* a message event: data arrives while c is open or in its closing handshake
OnMessage(c, p, throwers) ==
    /\ chans[c].st \in {"open", "closingO"}
    /\ Becomes(onmessage(Start, c, p, throwers))

\* a message event whose handlers change the registry; a handler can only
\* call a disposer that a registration returned
OnMessageLive(c, p, does) ==
    /\ chans[c].st \in {"open", "closingO"}
    /\ \A h \in DispatchHandlers :
          does[h].do = "dispose" =>
              \E d \in disposers : d.e = does[h].e /\ d.h = does[h].h
    /\ Becomes(onmessageLive(Start, c, p, does))

\* the error event: the connection of c failed, dropped, or was closed by
\* close() before it was established
ErrorEvent(c, kind) ==
    /\ chans[c].st \in {"connecting", "open", "closingC"}
    /\ Becomes(onerror(Start, c, kind))

\* the close codes the close event of c can carry now
CloseCodes(c) ==
    IF c.st = "errored" THEN FailedCloseCodes
    ELSE IF c.st = "closingO" THEN {NormalClosure}
    ELSE IF c.st = "open" THEN ServerCloseCodes
    ELSE {}

\* the close event
CloseEvent(c, code) ==
    /\ code \in CloseCodes(chans[c])
    /\ LET s == onclose(Start, c, code)
       IN /\ Len(s.timers) <= MaxTimers
          /\ Becomes(ObsExhausted(s))

\* the backoff delay of the i-th pending attemptReconnect has elapsed
TimerFire(i) ==
    /\ i \in 1..Len(timers)
    /\ LET s0 == [Start EXCEPT !.timers = RemoveAt(@, i)]
       IN /\ isConnected \/ CanConnect(s0)
          /\ LET s == reconnectAfterDelay(s0, timers[i].room)
             IN Becomes(ObsPolicyConnect(s, s.ret.val = "promise"))

Next ==
    \/ \E r \in Rooms : Connect(r)
    \/ Disconnect
    \/ \E m \in Msgs : SendMessage(m)
    \/ \E h \in Handlers : AddMessageHandler(h)
    \/ \E e \in EventTypes, h \in Handlers : On(e, h)
    \/ TokenChange
    \/ \E c \in ChanIds : OpenEvent(c)
    \/ \E c \in ChanIds, k \in ErrorKinds : ErrorEvent(c, k)
    \/ \E c \in ChanIds, code \in AllCloseCodes :
           CloseEvent(c, code)
    \/ \E i \in 1..MaxTimers : TimerFire(i)

Spec == Init /\ [][Next]_vars

\* the connection life cycle alone: sendMessage and the handler registry
\* neither read nor write what these actions write
NextConn ==
    \/ \E r \in Rooms : Connect(r)
    \/ Disconnect
    \/ TokenChange
    \/ \E c \in ChanIds : OpenEvent(c)
    \/ \E c \in ChanIds, k \in ErrorKinds : ErrorEvent(c, k)
    \/ \E c \in ChanIds, code \in AllCloseCodes :
           CloseEvent(c, code)
    \/ \E i \in 1..MaxTimers : TimerFire(i)

SpecConn == Init /\ [][NextConn]_vars

\* the dispatch of inbound frames to the registered handlers
NextDispatch ==
    \/ \E r \in Rooms : Connect(r)
    \/ Disconnect
    \/ \E c \in ChanIds : OpenEvent(c)
    \/ \E h \in DispatchHandlers : AddMessageHandler(h)
    \/ \E e \in EventTypes, h \in DispatchHandlers : On(e, h)
    \/ \E c \in ChanIds, p \in Payloads, throwers \in SUBSET DispatchHandlers :
           OnMessage(c, p, throwers)

SpecDispatch == Init /\ [][NextDispatch]_vars

\* the handler registry and the disposers
NextRegistry ==
    \/ \E h \in DispatchHandlers : AddMessageHandler(h)
    \/ \E e \in EventTypes, h \in Handlers : On(e, h)
    \/ \E e \in EventTypes : Off(e)
    \/ \E d \in Disposers : Dispose(d)
    \/ Disconnect

SpecRegistry == Init /\ [][NextRegistry]_vars

\* a call that never returns keeps the only thread: nothing runs after it
Responsive == ret.val # "diverges"

\* the pending queue and the calls that fill and flush it, over the life of
\* the connections
NextFlush ==
    \/ Responsive /\ \E r \in Rooms : Connect(r)
    \/ Responsive /\ \E m \in Msgs : SendMessage(m)
    \/ Responsive /\ FlushPendingMessages
    \/ Responsive /\ \E c \in ChanIds : OpenEvent(c)
    \/ Responsive /\ \E c \in ChanIds, k \in ErrorKinds : ErrorEvent(c, k)
    \/ Responsive /\ \E c \in ChanIds, code \in AllCloseCodes :
                         CloseEvent(c, code)
    \/ Responsive /\ \E i \in 1..MaxTimers : TimerFire(i)

SpecFlush == Init /\ [][NextFlush]_vars

\* the dispatch of inbound frames to handlers that register and remove
\* handlers while they run
NextReentrant ==
    \/ \E r \in Rooms : Connect(r)
    \/ \E c \in ChanIds : OpenEvent(c)
    \/ \E h \in DispatchHandlers : AddMessageHandler(h)
    \/ \E e \in EventTypes, h \in DispatchHandlers : On(e, h)
    \/ \E c \in ChanIds, p \in GoodPayloads,
          does \in Behaviours :
           OnMessageLive(c, p, does)

SpecReentrant == Init /\ [][NextReentrant]_vars

\* the connection life cycle while the credential is renewed and removed
NextCred ==
    \/ \E r \in Rooms : Connect(r)
    \/ Disconnect
    \/ \E tk \in Credentials \cup {Null} : TokenBecomes(tk)
    \/ \E c \in ChanIds : OpenEvent(c)
    \/ \E c \in ChanIds, k \in ErrorKinds : ErrorEvent(c, k)
    \/ \E c \in ChanIds, code \in AllCloseCodes :
           CloseEvent(c, code)
    \/ \E i \in 1..MaxTimers : TimerFire(i)

SpecCred == Init /\ [][NextCred]_vars

\* the address of the channel, for the rooms and credentials of Texts
NextUrl ==
    \/ \E r \in Rooms : Connect(r)
    \/ \E roomId \in Texts, tok \in Texts : NewWebSocket(roomId, tok)
    \/ \E roomId \in Texts, tok \in Texts : WsNewWebSocket(roomId, tok)

SpecUrl == Init /\ [][NextUrl]_vars

\* ---- services/websocketService.js ----------------------------------------

wsFreeIds(s) == {c \in ChanIds : s.websocketService.chans[c] = "free"}

\* connect() needs a WebSocket object of the model when it gets to create one
wsCanConnect(s) ==
    \/ s.websocketService.socket # NoSocket
    \/ wsFreeIds(s) # {}

\* connect(token, onOpen, onClose, onError), lines 12-55
wsConnect(s) ==
    IF s.websocketService.socket # NoSocket THEN s
    ELSE LET c == CHOOSE x \in wsFreeIds(s) : \A y \in wsFreeIds(s) : x <= y
         IN [s EXCEPT !.websocketService.socket = c,
                      !.websocketService.chans[c] = "connecting"]

\* WebSocket.close()
wsCloseCall(st) ==
    IF st = "connecting" THEN "closingC"
    ELSE IF st = "open" THEN "closingO"
    ELSE st

\* disconnect(), lines 57-63
wsDisconnect(s) ==
    IF s.websocketService.socket # NoSocket
    THEN [s EXCEPT !.websocketService.chans[s.websocketService.socket] =
                       wsCloseCall(@),
                   !.websocketService.socket = NoSocket,
                   !.websocketService.isConnected = FALSE]
    ELSE s

\* sendMessage(message), lines 65-72: ret.val is what it returns, or "throw"
\* when socket.send() throws because the socket is still connecting
wsSendMessage(s, m) ==
    LET w == s.websocketService
    IN IF w.socket # NoSocket /\ w.isConnected
       THEN IF w.chans[w.socket] = "connecting"
            THEN [s EXCEPT !.ret.val = "throw"]
            ELSE [s EXCEPT !.wire = IF w.chans[w.socket] = "open"
                                    THEN Append(@, m) ELSE @,
                           !.ret.val = "true"]
       ELSE [s EXCEPT !.ret.val = "false"]

Threw(s) == s.ret.val = "throw"

\* addMessageHandler(handler), lines 74-77, and the closure it returns
wsAddMessageHandler(s, h) ==
    [s EXCEPT !.websocketService.messageHandlers = SetAdd(@, h)]

wsRemoveHandler(s, h) ==
    [s EXCEPT !.websocketService.messageHandlers = SetDelete(@, h)]

\* ---- App.jsx ---------------------------------------------------------------

\* a state setter of a component that is no longer mounted does nothing
SetApp(s, a) == IF s.app.mounted THEN [s EXCEPT !.app = a] ELSE s

\* [...new Set(array)]
RECURSIVE Dedup(_)
Dedup(seq) ==
    IF seq = <<>> THEN <<>>
    ELSE LET front == Dedup(SubSeq(seq, 1, Len(seq) - 1))
             last == seq[Len(seq)]
         IN SetAdd(front, last)

\* handleWebSocketMessage(message), lines 40-52
handleWebSocketMessage(s, m) ==
    IF m.type = "code_update"
    THEN SetApp(s, [s.app EXCEPT !.code = m.content])
    ELSE IF m.type = "chat_message"
    THEN SetApp(s, [s.app EXCEPT !.messages = Append(@, m)])
    ELSE IF m.type = "user_joined"
    THEN SetApp(s, [s.app EXCEPT !.users = Dedup(Append(@, m.username))])
    ELSE IF m.type = "user_left"
    THEN SetApp(s, [s.app EXCEPT
                       !.users = SelectSeq(@, LAMBDA u : u # m.username)])
    ELSE IF m.type = "room_users"
    THEN SetApp(s, [s.app EXCEPT !.users = m.users])
    ELSE s

\* the entry that the second version of the component (lines 304-592, over
\* socket.io) adds to the chat when the roster changes
SystemMessage(text) ==
    [Frame("system") EXCEPT !.user = "Systeme", !.message = text]

\* handleUserJoined(user), lines 380-386
handleUserJoined(s, user) ==
    SetApp(s, [s.app EXCEPT
                  !.users = Append(@, user),
                  !.messages = Append(@, SystemMessage("a rejoint la salle"))])

\* handleUserLeft(username), lines 388-394
handleUserLeft(s, username) ==
    SetApp(s, [s.app EXCEPT
                  !.users = SelectSeq(@, LAMBDA u : u # username),
                  !.messages = Append(@, SystemMessage("a quitte la salle"))])

\* onOpen, lines 58-70
onOpen(s) ==
    IF s.app.savedRoom # Null
    THEN LET s1 == wsSendMessage(s, JoinRoomFrame(s.app.savedRoom, Username))
         IN IF Threw(s1) THEN s1
            ELSE SetApp(s1, [s1.app EXCEPT !.room = s.app.savedRoom])
    ELSE s

\* onClose, lines 72-77
onClose(s) ==
    SetApp(s, [s.app EXCEPT !.room = "", !.users = <<>>, !.messages = <<>>])

\* onError, lines 79-82
onError(s) == SetApp(s, [s.app EXCEPT !.error = ConnectionError])

\* joinRoom(roomName, username), lines 96-117
joinRoom(s, roomName) ==
    LET s1 == [s EXCEPT !.app.loading = TRUE, !.app.error = ""]
        s2 == wsSendMessage(s1, JoinRoomFrame(roomName, Username))
    IN IF Threw(s2) THEN s2
       ELSE [s2 EXCEPT !.app.room = roomName,
                       !.app.savedRoom = roomName,
                       !.app.loading = FALSE]

\* leaveRoom(), lines 146-159
leaveRoom(s) ==
    LET s1 == IF s.app.room # ""
              THEN wsSendMessage(s, LeaveRoomFrame(s.app.room, Username))
              ELSE s
    IN IF Threw(s1) THEN s1
       ELSE [s1 EXCEPT !.app.savedRoom = IF s.app.room # "" THEN Null ELSE @,
                       !.app.room = "",
                       !.app.messages = <<>>,
                       !.app.users = <<>>,
                       !.app.code = DefaultCode]

\* handleCodeChange(newCode), lines 161-170
handleCodeChange(s, newCode) ==
    LET s1 == [s EXCEPT !.app.code = newCode]
    IN IF s.app.room # ""
       THEN wsSendMessage(s1, CodeUpdateFrame(s.app.room, newCode))
       ELSE s1

\* handleSendMessage(message), lines 172-185
handleSendMessage(s, text) ==
    IF s.app.room = "" THEN s
    ELSE LET newMessage == ChatMessageFrame(s.app.room, Username, text)
             s1 == wsSendMessage(s, newMessage)
         IN IF Threw(s1) THEN s1
            ELSE [s1 EXCEPT !.app.messages = Append(@, newMessage)]

\* the effect of lines 188-195
rejoinEffect(s) ==
    IF s.app.room = "" /\ s.app.savedRoom # Null
    THEN joinRoom(s, s.app.savedRoom)
    ELSE s

\* the effect of lines 55-93 and its cleanup
connectEffect(s) ==
    wsAddMessageHandler(wsConnect(s), "handleWebSocketMessage")

cleanupEffect(s) ==
    wsDisconnect(wsRemoveHandler(s, "handleWebSocketMessage"))

\* handleLogout(), lines 119-144: an exception of sendMessage is caught at
\* line 141 and ends the handler; otherwise logout() resolves and the
\* navigation to the login page unmounts the component, which runs the
\* cleanup of the effect
handleLogout(s) ==
    LET s1 == IF s.app.room # ""
              THEN wsSendMessage(s, LeaveRoomFrame(s.app.room, Username))
              ELSE s
    IN IF Threw(s1)
       THEN [s1 EXCEPT !.ret.val = "caught"]
       ELSE [cleanupEffect(wsDisconnect(s1)) EXCEPT
                !.app = [NoApp EXCEPT !.savedRoom = s.app.savedRoom]]

\* socket.onopen, websocketService.js lines 20-25
wsOnopen(s, c) ==
    onOpen([s EXCEPT !.websocketService.isConnected = TRUE,
                     !.websocketService.reconnectAttempts = 0,
                     !.websocketService.chans[c] = "open"])

\* socket.onmessage, lines 27-34; parsed is whether JSON.parse succeeded
wsOnmessage(s, c, parsed, m) ==
    IF parsed /\ s.websocketService.messageHandlers # <<>>
    THEN handleWebSocketMessage(s, m)
    ELSE s

\* socket.onclose, lines 36-49
wsOnclose(s, c) ==
    LET s1 == onClose([s EXCEPT !.websocketService.isConnected = FALSE,
                                !.websocketService.socket = NoSocket,
                                !.websocketService.chans[c] = "free"])
    IN IF s1.websocketService.reconnectAttempts < wsMaxReconnectAttempts
       THEN [s1 EXCEPT !.websocketService.reconnectAttempts = @ + 1,
                       !.websocketService.timers = @ + 1]
       ELSE s1

\* socket.onerror, lines 51-54
wsOnerror(s, c) == onError([s EXCEPT !.websocketService.chans[c] = "errored"])

\* the callback of setTimeout at line 47
wsTimer(s) == wsConnect([s EXCEPT !.websocketService.timers = @ - 1])

\* the state a handler of the application starts from
Begin(op) == [Start EXCEPT !.ret = Ret(op, "void", "none")]

\* what a handler reports: whether it ended by an exception
End(s) == [s EXCEPT !.ret.val = IF @ \in {"throw", "caught"} THEN @ ELSE "void"]

\* ---- actions: the application component -----------------------------------

\* the component is mounted: the effects run in the order of the source
Mount ==
    /\ ~app.mounted
    /\ wsCanConnect(State)
    /\ LET s == [Begin("mount") EXCEPT !.app.mounted = TRUE]
       IN Becomes(End(rejoinEffect(connectEffect(s))))

\* a dependency of the effect of lines 55-93 changed (the user's token), or
\* StrictMode runs the effect twice: cleanup, then the effect again
EffectRerun ==
    /\ app.mounted
    /\ wsCanConnect(cleanupEffect(State))
    /\ Becomes(End(connectEffect(cleanupEffect(Begin("effect")))))

\* the room selector is shown while no room is set
JoinRoom(roomName) ==
    /\ app.mounted
    /\ app.room = ""
    /\ Becomes(End(joinRoom(Begin("joinRoom"), roomName)))

\* the buttons and the editor of the room view are shown while a room is set
LeaveRoom ==
    /\ app.mounted
    /\ app.room # ""
    /\ Becomes(End(leaveRoom(Begin("leaveRoom"))))

HandleCodeChange(newCode) ==
    /\ app.mounted
    /\ app.room # ""
    /\ Becomes(End(handleCodeChange(Begin("handleCodeChange"), newCode)))

HandleSendMessage(text) ==
    /\ app.mounted
    /\ app.room # ""
    /\ Len(app.messages) < MaxMessages
    /\ Becomes(End(handleSendMessage(Begin("handleSendMessage"), text)))

HandleLogout ==
    /\ app.mounted
    /\ app.room # ""
    /\ Becomes(End(handleLogout(Begin("handleLogout"))))

\* the effect of lines 188-195 after a render in which room became empty
RejoinEffect ==
    /\ app.mounted
    /\ app.room = ""
    /\ app.savedRoom # Null
    /\ Becomes(End(rejoinEffect(Begin("rejoinEffect"))))

\* ---- actions: the events of the application's sockets ---------------------

WsOpenEvent(c) ==
    /\ websocketService.chans[c] = "connecting"
    /\ Becomes(End(wsOnopen(Begin("ws.onopen"), c)))

WsMessageEvent(c, parsed, m) ==
    /\ websocketService.chans[c] \in {"open", "closingO"}
    /\ m.type = "chat_message" => Len(app.messages) < MaxMessages
    /\ Becomes(End(wsOnmessage(Begin("ws.onmessage"), c, parsed, m)))

WsErrorEvent(c) ==
    /\ websocketService.chans[c] \in {"connecting", "open", "closingC"}
    /\ Becomes(End(wsOnerror(Begin("ws.onerror"), c)))

WsCloseEvent(c) ==
    /\ websocketService.chans[c] \in {"open", "closingO", "errored"}
    /\ LET s == wsOnclose(Begin("ws.onclose"), c)
       IN /\ s.websocketService.timers <= MaxTimers
          /\ Becomes(End(s))

WsTimerFire ==
    /\ websocketService.timers > 0
    /\ wsCanConnect(State)
    /\ Becomes(End(wsTimer(Begin("ws.timer"))))

\* the user_joined and user_left events of the socket.io connection
UserJoinedEvent(user) ==
    /\ app.mounted
    /\ Len(app.messages) < MaxMessages
    /\ Becomes(End(handleUserJoined(Begin("user_joined"), user)))

UserLeftEvent(username) ==
    /\ app.mounted
    /\ Len(app.messages) < MaxMessages
    /\ Becomes(End(handleUserLeft(Begin("user_left"), username)))

\* the frames a server is taken to send in the runs of the room view
CodeValues == {"X"}

RoomFrames ==
    {[Frame("code_update") EXCEPT !.content = x] : x \in CodeValues}
    \cup {CodeUpdateFrame(r, x) : r \in Rooms, x \in CodeValues}
    \cup {[Frame("user_joined") EXCEPT !.username = u] : u \in Usernames}
    \cup {[Frame("user_left") EXCEPT !.username = u] : u \in Usernames}
    \cup {[Frame("room_users") EXCEPT !.users = <<"bob", "alice">>],
          [Frame("user_list") EXCEPT !.users = <<"bob", "alice">>],
          [Frame("room_joined") EXCEPT !.room = "demo-room"],
          ChatMessageFrame("demo-room", "bob", "hi"),
          \* the frame of the local user, as the server sends it to the room
          ChatMessageFrame("demo-room", Username, "hello")}

\* the room view: one connection, the local actions and the inbound frames
NextRoom ==
    \/ Mount
    \/ \E c \in ChanIds : WsOpenEvent(c)
    \/ \E r \in Rooms : JoinRoom(r)
    \/ LeaveRoom
    \/ \E x \in CodeValues : HandleCodeChange(x)
    \/ \E text \in {"hello"} : HandleSendMessage(text)
    \/ \E c \in ChanIds, parsed \in BOOLEAN, m \in RoomFrames :
           WsMessageEvent(c, parsed, m)

SpecRoom == Init /\ [][NextRoom]_vars

\* the roster under the presence frames of both versions of the component
RosterFrames ==
    {[Frame(type) EXCEPT !.username = u] :
        type \in {"user_joined", "user_left"}, u \in Usernames}

NextRoster ==
    \/ Mount
    \/ \E c \in ChanIds : WsOpenEvent(c)
    \/ \E c \in ChanIds, m \in RosterFrames : WsMessageEvent(c, TRUE, m)
    \/ \E u \in Usernames : UserJoinedEvent(u)
    \/ \E u \in Usernames : UserLeftEvent(u)

SpecRoster == Init /\ [][NextRoster]_vars

\* the frames of the runs that look at the connection of the application
SessionFrames ==
    {[Frame("code_update") EXCEPT !.content = "X"],
     [Frame("user_joined") EXCEPT !.username = "bob"]}

\* the session of the application over the life of its connections
NextSession ==
    \/ Mount
    \/ EffectRerun
    \/ \E r \in Rooms : JoinRoom(r)
    \/ LeaveRoom
    \/ HandleLogout
    \/ RejoinEffect
    \/ \E c \in ChanIds : WsOpenEvent(c)
    \/ \E c \in ChanIds, m \in SessionFrames : WsMessageEvent(c, TRUE, m)
    \/ \E c \in ChanIds : WsErrorEvent(c)
    \/ \E c \in ChanIds : WsCloseEvent(c)
    \/ WsTimerFire

SpecSession == Init /\ [][NextSession]_vars

TypeOK ==
    /\ socket \in ChanIds \cup {NoSocket}
    /\ isConnected \in BOOLEAN
    /\ reconnectAttempts \in 0..maxReconnectAttempts
    /\ Len(pendingMessages) <= MaxQueue
    /\ Len(timers) <= MaxTimers

\* ---- the claims ---------------------------------------------------------

LiveChans == {c \in ChanIds : Live(chans[c])}

\* the service's own channel is open
HasOpenChannel == socket # NoSocket /\ chans[socket].st = "open"

\* C1: when a channel opens, the frames queued while no channel was open are
\* transmitted on it, in the order they were queued and once each, and the
\* queue is left empty.
C1_QueuedFramesSentOnOpen ==
    [][\A c \in ChanIds :
          OpenEvent(c) => /\ wire' = pendingMessages
                          /\ pendingMessages' = <<>>]_vars

\* C2: a close event invokes attemptReconnect exactly when its code is not
\* 1000, and the close event of a channel that disconnect() closed never
\* schedules a reconnection.
C2_ReconnectIffNotDeliberate ==
    [][\A c \in ChanIds, code \in AllCloseCodes :
          CloseEvent(c, code) =>
              /\ (ret'.ar # "none") <=> (code # NormalClosure)
              /\ chans[c].byUs => ret'.ar # "scheduled"]_vars

\* C3: a reconnection attempt that was waiting out its backoff delay when
\* disconnect() was called performs no connect() and creates no channel when
\* the delay elapses.
C3_DisconnectCancelsReconnect ==
    [][\A i \in 1..MaxTimers :
          (TimerFire(i) /\ timers[i].cancelled) =>
              /\ chans' = chans
              /\ socket' = socket]_vars

\* C4: at most one channel of the service is open or opening at any time.
C4_AtMostOneLiveChannel == Cardinality(LiveChans) <= 1

\* C5: in the scenario of one connect() with a valid credential and no other
\* call by the application, counting from the last open event: the
\* reconnection policy creates at most 5 channels, the exhaustion error is
\* passed to onError at most once, and when it is, exactly 5 channels were
\* tried, none is left and no further attempt is pending.
C5_FiveAttemptsThenExhausted ==
    obs.scenario = "pure" =>
        /\ obs.policyConnects <= maxReconnectAttempts
        /\ obs.exhausted <= 1
        /\ obs.exhausted = 1 =>
              /\ obs.policyConnects = maxReconnectAttempts
              /\ timers = <<>>
              /\ LiveChans = {}
        /\ ret.ar = "exhausted" => ret.err = "Maximum de tentatives"

C5_Witness ==
    /\ obs.scenario = "pure"
    /\ obs.exhausted = 1
    /\ obs.policyConnects = maxReconnectAttempts
    /\ ret.ar = "exhausted"

\* C6: a connect() that directly follows a disconnect() leaves the
\* reconnect-attempt counter at 0.
C6_DisconnectConnectResetsCounter ==
    [][\A r \in Rooms :
          (ret.op = "disconnect" /\ Connect(r)) =>
              reconnectAttempts' = 0]_vars

\* C7: a connect() issued while the token provider returns no credential,
\* by the application or by the reconnection policy, passes an error to
\* onError, throws, and creates no channel.
C7_NoCredentialFailsFast ==
    [][(/\ authToken = Null
        /\ \/ \E r \in Rooms : Connect(r)
           \/ \E i \in 1..MaxTimers : TimerFire(i) /\ ~isConnected) =>
          /\ ret'.val = "throw"
          /\ ret'.err = "Non authentifie"
          /\ socket' = NoSocket
          /\ \A c \in ChanIds : chans'[c].st = "connecting" =>
                                    chans[c].st = "connecting"]_vars

C7_Witness ==
    /\ ret.op = "timer"
    /\ ret.val = "throw"
    /\ ret.err = "Non authentifie"

\* C8: sendMessage with the service's channel open transmits the frame,
\* reports success and leaves the queue as it was; otherwise it transmits
\* nothing, appends the frame to the queue and returns a value that differs
\* from the one returned when the transmission fails.
C8_SendOrQueue ==
    [][\A m \in Msgs :
          SendMessage(m) =>
              IF HasOpenChannel
              THEN /\ wire' = <<m>>
                   /\ ret'.val = SendSentReturn
                   /\ pendingMessages' = pendingMessages
              ELSE /\ wire' = <<>>
                   /\ pendingMessages' = Append(pendingMessages, m)
                   /\ ret'.val # SendFailedReturn]_vars

\* C9: after disconnect() the channel reference is null, isConnected is
\* false, the handler collections and the pending queue are empty and the
\* channel the service held is no longer open or opening; a second
\* disconnect() then changes nothing.
C9_DisconnectIdempotent ==
    [][Disconnect =>
          /\ socket' = NoSocket
          /\ ~isConnected'
          /\ currentRoom' = Null
          /\ messageHandlers' = <<>>
          /\ \A e \in EventTypes : eventHandlers'[e] = NoEntry
          /\ pendingMessages' = <<>>
          /\ socket # NoSocket => ~Live(chans'[socket])
          /\ (callerDisconnect(State) = State)']_vars

C9_Witness ==
    /\ ret.op = "disconnect"
    /\ timers # <<>>
    /\ \E c \in ChanIds : chans[c].st \in {"closingC", "closingO"}

\* C10: the promise of connect() is resolved once the channel is open and is
\* rejected once an error event arrived before any open event.
C10_ConnectPromiseSettles ==
    \A c \in ChanIds :
        /\ chans[c].st = "open" => chans[c].promise = "resolved"
        /\ chans[c].st = "errored" => chans[c].promise # "pending"

\* C11: the delay of reconnection attempt n, n = 1..5, is 1000, 2000, 4000,
\* 8000 and 16000 ms, which is min(1000 * 2^(n-1), 30000), and no computed
\* delay exceeds 30000 ms.
C11_BackoffSchedule ==
    /\ ret.delay <= 30000
    /\ ret.ar = "scheduled" =>
          /\ reconnectAttempts \in 1..5
          /\ ret.delay = <<1000, 2000, 4000, 8000, 16000>>[reconnectAttempts]
          /\ ret.delay = Min(1000 * Pow2(reconnectAttempts - 1), 30000)

C11_Witness ==
    /\ ret.ar = "scheduled"
    /\ reconnectAttempts = 5
    /\ ret.delay = 16000

\* ---- dispatch of inbound frames ------------------------------------------

\* the handlers registered for a decoded frame, as <<group, handler>>
RegisteredFor(data) ==
    {<<General, messageHandlers[i]>> : i \in 1..Len(messageHandlers)}
    \cup {<<data.event_type, Keyed(State, data)[i]>> :
              i \in 1..Len(Keyed(State, data))}

InvokedSet(cs) == {cs[i] : i \in 1..Len(cs)}

\* the place of a handler in the iteration order of its collection
Place(g, h) ==
    LET hs == IF g = General THEN messageHandlers ELSE eventHandlers[g].hs
    IN CHOOSE i \in 1..Len(hs) : hs[i] = h

\* C12: when a handler throws while a frame is dispatched, every other
\* handler registered for the frame is still invoked for it, and the channel
\* stays open.
C12_ThrowingHandlerIsolated ==
    [][\A c \in ChanIds, p \in GoodPayloads,
         throwers \in SUBSET DispatchHandlers :
          OnMessage(c, p, throwers) =>
              /\ InvokedSet(calls') = RegisteredFor(JSONparse(p))
              /\ chans' = chans
              /\ isConnected' = isConnected
              /\ socket' = socket]_vars

\* C13: for a decoded frame the general handlers are invoked before the
\* handlers keyed on its event_type, and within a group in the order of
\* registration: a new registration goes to the end of its collection, a
\* dispatch never invokes a handler before one that precedes it there, and
\* when no handler throws every registered handler is invoked exactly once.
C13_GeneralThenKeyedInOrder ==
    [][/\ \A h \in DispatchHandlers :
            (AddMessageHandler(h) /\ h \notin InvokedSet(messageHandlers)) =>
                messageHandlers' = Append(messageHandlers, h)
       /\ \A e \in EventTypes, h \in DispatchHandlers :
            (On(e, h) /\ h \notin InvokedSet(eventHandlers[e].hs)) =>
                eventHandlers'[e].hs = Append(eventHandlers[e].hs, h)
       /\ \A c \in ChanIds, p \in GoodPayloads,
            throwers \in SUBSET DispatchHandlers :
            OnMessage(c, p, throwers) =>
                /\ InvokedSet(calls') \subseteq RegisteredFor(JSONparse(p))
                /\ \A i, j \in 1..Len(calls') :
                      i < j =>
                        /\ calls'[j][1] = General => calls'[i][1] = General
                        /\ calls'[i][1] = calls'[j][1] =>
                              Place(calls'[i][1], calls'[i][2])
                                  < Place(calls'[j][1], calls'[j][2])
                /\ throwers = {} =>
                      /\ InvokedSet(calls') = RegisteredFor(JSONparse(p))
                      /\ Len(calls') = Cardinality(RegisteredFor(JSONparse(p)))
      ]_vars

\* two general handlers registered h2 first, then the keyed handlers
C13_Witness ==
    /\ ret.op = "onmessage"
    /\ calls = <<<<General, "h2">>, <<General, "h1">>,
                 <<"chat_message", "h1">>, <<"chat_message", "h2">>>>

\* C14: calling a disposer a second time leaves the registered handlers as
\* they are, also when its handler was registered again in between.
C14_DisposerIdempotent ==
    [][\A d \in Disposers :
          (Dispose(d) /\ d.called) =>
              /\ messageHandlers' = messageHandlers
              /\ eventHandlers' = eventHandlers]_vars

\* C19: an error classified as an authentication failure passes the
\* authentication error to onError, and the close event of that channel
\* schedules no reconnection.
C19_AuthErrorSuppressesReconnect ==
    [][\A c \in ChanIds :
          /\ ErrorEvent(c, "auth401") =>
                /\ ret'.err = "Erreur d'authentification"
                /\ ret'.ar # "scheduled"
          /\ \A code \in AllCloseCodes :
                (/\ ret.op = "onerror"
                 /\ ret.err = "Erreur d'authentification"
                 /\ chans[c].st = "errored"
                 /\ \A d \in ChanIds \ {c} : chans[d].st = "free"
                 /\ CloseEvent(c, code)) =>
                    ret'.ar # "scheduled"]_vars

\* C20: a payload that is no JSON invokes no handler and changes nothing of
\* the connection: channel, isConnected, attempt counter, pending queue and
\* timers stay as they are; the frame after it is dispatched to every
\* registered handler.
C20_MalformedPayloadDropped ==
    [][\A c \in ChanIds, throwers \in SUBSET DispatchHandlers :
          /\ \A p \in BadPayloads :
                OnMessage(c, p, throwers) =>
                    /\ calls' = <<>>
                    /\ UNCHANGED <<socket, chans, isConnected,
                                   reconnectAttempts, reconnectDelay,
                                   pendingMessages, timers, messageHandlers,
                                   eventHandlers, currentRoom>>
                    /\ ret'.ar = "none"
                    /\ ret'.err = "none"
          /\ \A p \in GoodPayloads :
                (/\ ret.op = "onmessage"
                 /\ ret.val = "SyntaxError"
                 /\ OnMessage(c, p, {})) =>
                    InvokedSet(calls') = RegisteredFor(JSONparse(p))]_vars

\* a malformed payload has just been dropped while handlers of both groups
\* are registered and the channel is open
C20_Witness ==
    /\ ret.op = "onmessage"
    /\ ret.val = "SyntaxError"
    /\ HasOpenChannel
    /\ Len(messageHandlers) = 2
    /\ \E e \in EventTypes : eventHandlers[e].hs # <<>>

\* ---- the room session of the application ---------------------------------

\* the room view is rendered instead of the room selector (line 211)
InRoomView == app.mounted /\ app.room # ""

HandlerRegistered == websocketService.messageHandlers # <<>>

\* C15: joinRoom does not put the client in the room view; the client enters
\* the room view only by a room_joined frame.
C15_JoinedOnlyByRoomJoined ==
    [][/\ \A r \in Rooms : JoinRoom(r) => ~InRoomView'
       /\ (~InRoomView /\ InRoomView') =>
             \E c \in ChanIds, m \in RoomFrames :
                 /\ m.type = "room_joined"
                 /\ WsMessageEvent(c, TRUE, m)]_vars

\* C16: a code_update frame whose code property is X sets the code buffer
\* to X, whatever it held; this covers the frame handleCodeChange sends.
C16_CodeUpdateReplacesBuffer ==
    [][\A c \in ChanIds, m \in RoomFrames :
          (/\ m.type = "code_update"
           /\ m.code # Undefined
           /\ HandlerRegistered
           /\ WsMessageEvent(c, TRUE, m)) =>
              app'.code = m.code]_vars

\* C17: after leaveRoom the room is empty, the roster is empty and the code
\* buffer is reset, whether or not the leave_room frame was transmitted.
C17_LeaveAlwaysTakesEffect ==
    [][LeaveRoom =>
          /\ app'.room = ""
          /\ app'.users = <<>>
          /\ app'.code = DefaultCode]_vars

\* C18: while the client stays in a room the roster changes only by a
\* user_list, user_joined or user_left frame, and a user_list frame replaces
\* the roster by the list it carries.
C18_RosterOnlyByPresenceFrames ==
    [][/\ (/\ app.room # ""
           /\ app'.room = app.room
           /\ app'.users # app.users) =>
             \E c \in ChanIds, m \in RoomFrames :
                 /\ m.type \in {"user_list", "user_joined", "user_left"}
                 /\ WsMessageEvent(c, TRUE, m)
       /\ \A c \in ChanIds, m \in RoomFrames :
             (/\ m.type = "user_list"
              /\ HandlerRegistered
              /\ WsMessageEvent(c, TRUE, m)) =>
                 app'.users = m.users]_vars

\* ---- reconnection and what the application is told ------------------------

\* C21: a close that disconnect() did not ask for leaves the session either
\* connected, or with a reconnection under way (a backoff timer pending or a
\* channel connecting), or with an error passed to onError; it is never left
\* disconnected in silence with no attempt pending.
C21_NonDeliberateCloseRecovers ==
    [][\A c \in ChanIds, code \in AllCloseCodes :
          (/\ ~chans[c].byUs
           /\ CloseEvent(c, code)) =>
              \/ isConnected'
              \/ timers' # <<>>
              \/ LiveChans' # {}
              \/ ret'.err # "none"]_vars

\* C22: an error event that is no authentication failure passes nothing to
\* onError while reconnection attempts remain.
C22_TransportErrorNotSurfaced ==
    [][\A c \in ChanIds :
          (/\ reconnectAttempts < maxReconnectAttempts
           /\ ErrorEvent(c, "transport")) =>
              ret'.err = "none"]_vars

\* C23: in the service of websocketService.js the close event of a channel
\* that disconnect() closed schedules no connect, and while the component is
\* unmounted (disconnect() was the last call, connect() is not called again)
\* no timer creates a channel.
C23_WsDisconnectStopsReconnect ==
    [][/\ \A c \in ChanIds :
             (/\ websocketService.chans[c] = "closingO"
              /\ WsCloseEvent(c)) =>
                 websocketService'.timers = websocketService.timers
       /\ (/\ ~app.mounted
           /\ WsTimerFire) =>
              websocketService'.chans = websocketService.chans]_vars

\* ---- the pending queue ----------------------------------------------------

\* C24: a flush discards no frame: what it transmitted is a prefix of the
\* queue, and the frames it did not transmit, the one whose transmission
\* failed first, are still queued in their order.
C24_FailedFlushKeepsFrames ==
    [][(/\ FlushPendingMessages
        /\ ret'.val # "diverges") =>
           pendingMessages = wire' \o pendingMessages']_vars

\* C25: a send transmits a frame only when no frame queued earlier is still
\* waiting: the queued frames go out before any newer one.
C25_QueuedBeforeNewer ==
    [][\A m \in Msgs :
          (/\ SendMessage(m)
           /\ wire' # <<>>) =>
              pendingMessages = <<>>]_vars

\* ---- handlers that change the registry during a dispatch -----------------

\* how many times the invocation x was made
Times(cs, x) == Cardinality({i \in 1..Len(cs) : cs[i] = x})

\* C26: whatever the handlers remove or register while a frame is
\* dispatched, every handler registered for the frame when the dispatch
\* started is invoked exactly once for it.
C26_DispatchRoundStable ==
    [][\A c \in ChanIds, p \in GoodPayloads,
         does \in Behaviours :
          OnMessageLive(c, p, does) =>
              \A x \in RegisteredFor(JSONparse(p)) : Times(calls', x) = 1]_vars

\* ---- the open event -------------------------------------------------------

\* C27: every open event, that of a channel created by the reconnection
\* policy included, leaves reconnectAttempts at 0, reconnectDelay at 1000
\* and isConnected true, and invokes the caller's onOpen exactly once.
C27_OpenResetsAndNotifies ==
    [][\A c \in ChanIds :
          OpenEvent(c) =>
              /\ reconnectAttempts' = 0
              /\ reconnectDelay' = BaseReconnectDelay
              /\ isConnected'
              /\ Times(calls', Callback("onOpen")) = 1]_vars

\* a channel created by the reconnection policy has just opened
C27_Witness ==
    /\ ret.op = "onopen"
    /\ obs.reopened
    /\ isConnected
    /\ reconnectAttempts = 0
    /\ calls = <<Callback("onOpen")>>

\* ---- routing of decoded frames --------------------------------------------

\* C28: a decoded frame whose event_type has no keyed registration is
\* delivered to every general handler and to no keyed handler, and a keyed
\* handler is invoked only for a frame whose event_type is its key.
C28_RoutingByEventType ==
    [][\A c \in ChanIds, p \in GoodPayloads,
         throwers \in SUBSET DispatchHandlers :
          OnMessage(c, p, throwers) =>
              /\ Keyed(State, JSONparse(p)) = <<>> =>
                    InvokedSet(calls') = InvokedSet(Tag(General, messageHandlers))
              /\ \A x \in InvokedSet(calls') :
                    x[1] # General =>
                        /\ x[1] = JSONparse(p).event_type
                        /\ eventHandlers[x[1]].has
                        /\ \E i \in 1..Len(eventHandlers[x[1]].hs) :
                               eventHandlers[x[1]].hs[i] = x[2]]_vars

\* ---- the credential of a channel ------------------------------------------

\* C29: a channel is created, by connect() or by the reconnection policy,
\* only while the token provider returns a credential, and with the
\* credential it returns at that moment, whatever an earlier call obtained.
C29_ChannelUsesCurrentCredential ==
    [][\A c \in ChanIds :
          (/\ chans[c].st # "connecting"
           /\ chans'[c].st = "connecting") =>
              /\ authToken # Null
              /\ chans'[c].tok = authToken
              /\ token' = authToken
              /\ socket' = c]_vars

\* the reconnection policy has just created a channel with the credential
\* of the moment while a channel created with an earlier, different
\* credential has not closed yet
C29_Witness ==
    /\ ret.op = "timer"
    /\ ret.val = "promise"
    /\ socket # NoSocket
    /\ chans[socket].tok = authToken
    /\ \E d \in ChanIds : chans[d].tok \notin {Null, authToken}

\* C30: a payload that decodes to a frame without event_type is dropped:
\* no handler, general or keyed, is invoked for it.
C30_FrameWithoutTypeDropped ==
    [][\A c \in ChanIds, p \in GoodPayloads,
         throwers \in SUBSET DispatchHandlers :
          (/\ JSONparse(p).event_type = Null
           /\ OnMessage(c, p, throwers)) =>
              calls' = <<>>]_vars

\* ---- the address of the channel -------------------------------------------

\* the text of a sequence of pieces
RECURSIVE Join(_)
Join(seq) == IF seq = <<>> THEN "" ELSE Head(seq) \o Join(Tail(seq))

\* the character a percent escape stands for
Unescape(hex) ==
    CASE hex = <<"2", "0">> -> " "
      [] hex = <<"2", "F">> -> "/"
      [] hex = <<"3", "F">> -> "?"
      [] hex = <<"2", "6">> -> "&"
      [] hex = <<"3", "D">> -> "="
      [] hex = <<"2", "5">> -> "%"
      [] OTHER -> "invalid"

\* what the server reads out of a path segment or a query value
RECURSIVE decodeURIComponent(_)
decodeURIComponent(seq) ==
    IF seq = <<>> THEN <<>>
    ELSE IF seq[1] = "%"
    THEN IF Len(seq) < 3 THEN <<"invalid">>
         ELSE <<Unescape(SubSeq(seq, 2, 3))>>
                  \o decodeURIComponent(SubSeq(seq, 4, Len(seq)))
    ELSE <<seq[1]>> \o decodeURIComponent(Tail(seq))

\* characters that would end or split a path segment or a query value
Delimiters == {" ", "/", "?", "&", "=", "?token="}

\* C31: a service opens its channel at <base>/ws/chat/group/<roomId>?token=
\* <credential> with roomId and the credential percent-encoded: the room
\* segment and the token value hold no delimiter and decode to the roomId of
\* the call and to the credential; the channel created by connect(roomId)
\* records that roomId and the credential fetched in the call; for
\* 'demo-room' and 'abc123' the path is /ws/chat/group/demo-room?token=abc123.
C31_TargetAddress ==
    [][/\ ret'.op \in {"new WebSocket", "ws new WebSocket"} =>
                 LET url == ret'.val.url
                     roomId == ret'.val.roomId
                     tok == ret'.val.tok
                     q == CHOOSE i \in 3..Len(url) :
                              /\ url[i] = "?token="
                              /\ \A j \in 3..(i - 1) : url[j] # "?token="
                     room == SubSeq(url, 3, q - 1)
                     value == SubSeq(url, q + 1, Len(url))
                 IN /\ url[1] = connectionUrl
                    /\ url[2] = "/ws/chat/group/"
                    /\ \E i \in 3..Len(url) : url[i] = "?token="
                    /\ \A i \in 1..Len(room) : room[i] \notin Delimiters
                    /\ \A i \in 1..Len(value) : value[i] \notin Delimiters
                    /\ decodeURIComponent(room) = roomId
                    /\ decodeURIComponent(value) = tok
                    /\ (roomId = DemoRoom /\ tok = DemoToken) =>
                           Join(url) = connectionUrl
                               \o "/ws/chat/group/demo-room?token=abc123"
       /\ \A r \in Rooms :
             (Connect(r) /\ ret'.val = "promise") =>
                 /\ chans'[socket'].room = r
                 /\ chans'[socket'].tok = authToken]_vars

\* ---- the roster -----------------------------------------------------------

\* the user_joined or user_left event for username u, in either version
Presence(type, u) ==
    \/ \E c \in ChanIds :
           WsMessageEvent(c, TRUE, [Frame(type) EXCEPT !.username = u])
    \/ type = "user_joined" /\ UserJoinedEvent(u)
    \/ type = "user_left" /\ UserLeftEvent(u)

OnRoster(u) == \E i \in 1..Len(app.users) : app.users[i] = u

\* C32: under user_joined and user_left frames the roster never holds a
\* username twice; user_joined for a username on the roster and user_left
\* for one that is not on it leave the roster as it is.
C32_RosterIsSet ==
    [][/\ \A i, j \in 1..Len(app'.users) :
             app'.users[i] = app'.users[j] => i = j
       /\ \A u \in Usernames :
             /\ (OnRoster(u) /\ Presence("user_joined", u)) =>
                    app'.users = app.users
             /\ (~OnRoster(u) /\ Presence("user_left", u)) =>
                    app'.users = app.users]_vars

\* C33: in every reachable state the attempt counter of the room-scoped
\* service lies between 0 and maxReconnectAttempts, whatever the order of
\* close events, timers, opens and connect()/disconnect() calls
C33_AttemptsBounded ==
    /\ 0 <= reconnectAttempts
    /\ reconnectAttempts <= maxReconnectAttempts

\* the counter is at its maximum and a further close event was refused an
\* attempt, in a run where the caller called connect() or disconnect() again
C33_Witness ==
    /\ reconnectAttempts = maxReconnectAttempts
    /\ ret.op = "onclose"
    /\ ret.ar = "exhausted"
    /\ obs.scenario = "impure"

\* C34: isConnected is true only while this.socket is set and is the channel
\* that is open, so that a sendMessage() issued right after an open event
\* puts its frame on the wire and queues nothing
C34_ConnectedMeansOpenSocket ==
    /\ isConnected =>
          /\ socket # NoSocket
          /\ chans[socket].st = "open"
    /\ ret.op = "onopen" =>
          \A m \in Msgs :
             /\ sendMessage(Start, m).wire = <<m>>
             /\ sendMessage(Start, m).pendingMessages = pendingMessages

\* C35: at most one reconnection attempt is pending at any time, counting
\* backoff timers and the connect() of a reconnection that is still in
\* flight, also when the caller called connect() in between.  Hence, once a
\* timer's connect() has created a channel, no backoff timer is scheduled
\* while that channel is still connecting
C35_AtMostOnePendingReconnect ==
    [][\A c \in ChanIds :
          (/\ ret.op = "timer"
           /\ ret.val = "promise"
           /\ socket = c
           /\ chans'[c].st = "connecting")
          => timers' = <<>>]_vars

\* C36: flushPendingMessages() returns from every state: with an open
\* channel it leaves the queue empty, and with no open channel it returns
\* as well
C36_FlushTerminates ==
    [][FlushPendingMessages =>
          /\ ret'.op = "flushPendingMessages"
          /\ ret'.val = "void"
          /\ (isConnected /\ socket # NoSocket) => pendingMessages' = <<>>]_vars

\* C37: the connect() that attemptReconnect issues when its backoff delay
\* has elapsed leaves the general handlers, the keyed handlers and the
\* pending queue as they were, also when the caller called connect() since
\* the close
C37_ReconnectKeepsHandlersAndQueue ==
    [][\A i \in 1..MaxTimers :
          TimerFire(i) =>
              /\ messageHandlers' = messageHandlers
              /\ eventHandlers' = eventHandlers
              /\ pendingMessages' = pendingMessages]_vars

\* C38: the events of a channel that connect() replaced or disconnect()
\* closed have no effect on the session that follows: its message events
\* invoke no handler (every handler now registered was registered after the
\* channel was dropped), and its error and close events leave this.socket
\* and isConnected as they are
C38_OldChannelIsInert ==
    [][\A c \in ChanIds :
          chans[c].byUs =>
              /\ (\E p \in Payloads, throwers \in SUBSET DispatchHandlers :
                     OnMessage(c, p, throwers)) => calls' = <<>>
              /\ ((\E k \in ErrorKinds : ErrorEvent(c, k))
                  \/ (\E code \in AllCloseCodes : CloseEvent(c, code))) =>
                     /\ socket' = socket
                     /\ isConnected' = isConnected]_vars

\* ---- the chat list --------------------------------------------------------

\* C39: a chat message the local user sent is in the chat list once: when
\* the server delivers the chat_message frame of a message that was just
\* transmitted back to its sender, the list holds as many entries of it as
\* before
C39_OwnMessageListedOnce ==
    [][\A c \in ChanIds, r \in Rooms :
          LET m == ChatMessageFrame(r, Username, "hello")
          IN (/\ ret.op = "handleSendMessage"
              /\ wire = <<m>>
              /\ Times(app.messages, m) = 1
              /\ WsMessageEvent(c, TRUE, m)) =>
                 Times(app.messages', m) = 1]_vars

\* ---- the room of a client whose channel opens -----------------------------

\* C40: whenever a channel of the application opens while a room is saved
\* for the client, the open of a channel created by the reconnection timer
\* included, the join_room frame of the saved room is transmitted on the
\* channel that opened
C40_OpenRejoinsSavedRoom ==
    [][\A c \in ChanIds :
          (/\ WsOpenEvent(c)
           /\ app.savedRoom # Null) =>
              /\ wire' = <<JoinRoomFrame(app.savedRoom, Username)>>
              /\ websocketService'.socket = c]_vars

====
